---------------------------- MODULE Spec2Model ----------------------------
(***************************************************************************)
(* The augmentation stream of src/stream/oa/augment.js: for each lookup    *)
(* tuple (candidate streets + a batch of address records) it projects the  *)
(* records on the nearest street, sorts each street's observations,        *)
(* classifies the street's numbering scheme and pushes OA and VERTEX rows. *)
(*                                                                         *)
(* Numbers.  Coordinates are integers of a small grid and every street is  *)
(* axis-aligned, so that feet of projections and arc lengths are exact     *)
(* integers.  proj.dist is the squared planar distance (only ever compared *)
(* with <).  An interpolated housenumber is the exact fraction num/den.    *)
(* Indices are 1-based where the script's are 0-based; the vertex index    *)
(* recorded with an event is the script's (0-based).                       *)
(***************************************************************************)
EXTENDS Integers, Sequences, FiniteSets, TLC

\* ------------------------------------------------------------ bounds
\* longest batch of the enumerated lookup tuples
MaxBatch == 2
\* most candidate streets of an enumerated lookup tuple
MaxStreets == 2
\* number of tuples written to the stream of the multi-tuple specification
MaxTuples == 2

\* ------------------------------------------------------------ constants
\* polyline precision
PRECISION == 6
\* stands for the IEEE value Infinity: larger than every squared distance
Infinity == 1000000
\* stands for NaN, the parser's "invalid" (valid housenumbers are positive)
NaN == -1
\* JS undefined in a pushed row
Undefined == "undefined"

\* ------------------------------------------------------------ arithmetic
Abs(x) == IF x < 0 THEN -x ELSE x
Min(a, b) == IF a < b THEN a ELSE b
Max(a, b) == IF a < b THEN b ELSE a
Clamp(v, lo, hi) == Max(lo, Min(v, hi))

\* x.toFixed(7) of an integral coordinate: the decimal string
ToFixed7(x) == ToString(x) \o ".0000000"

\* three decimal digits
Pad3(n) ==
  IF n < 10 THEN "00" \o ToString(n)
  ELSE IF n < 100 THEN "0" \o ToString(n) ELSE ToString(n)

\* (num/den).toFixed(3) for num >= 0 and den > 0: rounded to the nearest thousandth
ToFixed3(r) ==
  LET t == (2 * r.num * 1000 + r.den) \div (2 * r.den)
  IN  ToString(t \div 1000) \o "." \o Pad3(t % 1000)

\* ------------------------------------------------------------ geometry
RECURSIVE Pow10(_)
Pow10(n) == IF n = 0 THEN 1 ELSE 10 * Pow10(n - 1)

\* the encoded line from <<lat, lon>> on: the decoded coordinates are absolute,
\* in degrees and in GeoJSON order (lon, lat)
RECURSIVE DecodeFrom(_, _, _, _)
DecodeFrom(line, lat, lon, factor) ==
  IF line = <<>> THEN <<>>
  ELSE LET nlat == lat + Head(line)[1]
           nlon == lon + Head(line)[2]
       IN  <<  <<nlon \div factor, nlat \div factor>>  >>
           \o DecodeFrom(Tail(line), nlat, nlon, factor)

\* polyline.toGeoJSON(line, precision).coordinates: an encoded line is the first
\* (lat, lon) pair followed by the delta to each next pair, each number being
\* degrees * 10^precision rounded to an integer
ToGeoJSON(line, precision) == DecodeFrom(line, 0, 0, Pow10(precision))

\* project.dedupe: consecutive duplicates removed (exact equality)
RECURSIVE Dedupe(_)
Dedupe(coords) ==
  IF Len(coords) < 2 THEN coords
  ELSE LET rest == Dedupe(Tail(coords))
       IN  IF Head(coords) = Head(rest) THEN rest ELSE <<Head(coords)>> \o rest

\* length of one axis-aligned edge
EdgeLength(a, b) == Abs(b[1] - a[1]) + Abs(b[2] - a[2])

\* project.lineDistance: the sum of the lengths of consecutive edges
RECURSIVE LineDistance(_)
LineDistance(coords) ==
  IF Len(coords) < 2 THEN 0
  ELSE EdgeLength(coords[1], coords[2]) + LineDistance(Tail(coords))

\* the foot of the perpendicular of p on the segment a-b, clamped to the segment
Foot(a, b, p) ==
  IF a[2] = b[2]
    THEN <<Clamp(p[1], Min(a[1], b[1]), Max(a[1], b[1])), a[2]>>
    ELSE <<a[1], Clamp(p[2], Min(a[2], b[2]), Max(a[2], b[2]))>>

Dist2(p, q) == (p[1] - q[1]) * (p[1] - q[1]) + (p[2] - q[2]) * (p[2] - q[2])

\* the result of a projection that failed
NoProjection == [edge |-> <<>>, point |-> <<>>, dist |-> Infinity, idx |-> 0]

ProjectionOnEdge(coords, k, p) ==
  LET f == Foot(coords[k], coords[k + 1], p)
  IN  [edge |-> <<coords[k], coords[k + 1]>>, point |-> f, dist |-> Dist2(p, f),
       idx |-> k]

\* best projection over edges k .. Len-1, the lowest edge index winning ties
RECURSIVE BestEdge(_, _, _, _)
BestEdge(coords, k, p, best) ==
  IF k >= Len(coords) THEN best
  ELSE LET cur == ProjectionOnEdge(coords, k, p)
       IN  BestEdge(coords, k + 1, p, IF cur.dist < best.dist THEN cur ELSE best)

\* project.pointOnLine: fails only with fewer than two distinct vertices
PointOnLine(coords, p) ==
  IF Len(coords) < 2 THEN NoProjection ELSE BestEdge(coords, 1, p, NoProjection)

\* project.parity: the sign of the cross product of the edge and (p - edge start)
Parity(proj, p) ==
  LET a == proj.edge[1]
      b == proj.edge[2]
      c == (b[1] - a[1]) * (p[2] - a[2]) - (b[2] - a[2]) * (p[1] - a[1])
  IN  IF c > 0 THEN "L" ELSE "R"

\* project.sliceLineAtProjection: the line up to the projection's edge, then the foot
SliceLineAtProjection(coords, proj) ==
  SubSeq(coords, 1, proj.idx) \o <<proj.point>>

\* ------------------------------------------------------------ parser
Digits == {"0", "1", "2", "3", "4", "5", "6", "7", "8", "9"}

DigitValue(c) ==
  CASE c = "0" -> 0 [] c = "1" -> 1 [] c = "2" -> 2 [] c = "3" -> 3
    [] c = "4" -> 4 [] c = "5" -> 5 [] c = "6" -> 6 [] c = "7" -> 7
    [] c = "8" -> 8 [] c = "9" -> 9

RECURSIVE DecimalValue(_, _)
DecimalValue(chars, acc) ==
  IF chars = <<>> THEN acc
  ELSE DecimalValue(Tail(chars), 10 * acc + DigitValue(Head(chars)))

\* analyze.housenumber: a positive integer, or NaN for anything else; the raw
\* string is its sequence of characters
Housenumber(number) ==
  IF number # <<>> /\ \A k \in 1..Len(number) : number[k] \in Digits
    THEN LET v == DecimalValue(number, 0) IN IF v > 0 THEN v ELSE NaN
    ELSE NaN

\* isNaN that lets every value through
IsNaNNever(x) == FALSE

IsNaN(x) == x = NaN

\* ------------------------------------------------------------ sort
\* the comparator handed to Array.prototype.sort; it never answers 0
Comparefn(a, b) == IF a.dist > b.dist THEN 1 ELSE -1

InsertAt(a, j, e) == SubSeq(a, 1, j) \o <<e>> \o SubSeq(a, j + 1, Len(a))

Reverse(s) == [k \in 1..Len(s) |-> s[Len(s) + 1 - k]]

\* The comparator is inconsistent on ties (both orders answer -1), so the order
\* of equal distances is whatever the engine's algorithm makes of it.  Two
\* engines, both as V8 runs them on a short array:
\*   "InsertionSort"  V8 before 7.0, arrays of at most 10 elements
\*   "TimSort"        V8 from 7.0 on, arrays shorter than the minimum run (32)
Engines == {"InsertionSort", "TimSort"}

\* InsertionSort's inner loop: from j down, skip the elements that compare > 0
RECURSIVE ScanDown(_, _, _)
ScanDown(a, j, element) ==
  IF j >= 1 /\ Comparefn(a[j], element) > 0 THEN ScanDown(a, j - 1, element) ELSE j

\* a[1..i-1] is sorted; insert a[i], a[i+1], ...
RECURSIVE InsertionSort(_, _)
InsertionSort(a, i) ==
  IF i > Len(a) THEN a
  ELSE LET prefix == SubSeq(a, 1, i - 1)
           j == ScanDown(prefix, i - 1, a[i])
       IN  InsertionSort(InsertAt(prefix, j, a[i]) \o SubSeq(a, i + 1, Len(a)), i + 1)

\* TimSort's CountAndMakeRun: the last index of the run that starts at 1
RECURSIVE RunEnd(_, _, _)
RunEnd(a, idx, descending) ==
  IF idx > Len(a) THEN idx - 1
  ELSE LET order == Comparefn(a[idx], a[idx - 1])
       IN  IF (descending /\ order >= 0) \/ (~descending /\ order < 0)
             THEN idx - 1
             ELSE RunEnd(a, idx + 1, descending)

\* TimSort's binary search of the pivot's place in a[left+1 .. right]
RECURSIVE BinarySearch(_, _, _, _)
BinarySearch(a, pivot, left, right) ==
  IF left < right
    THEN LET mid == left + ((right - left) \div 2)
         IN  IF Comparefn(pivot, a[mid + 1]) < 0
               THEN BinarySearch(a, pivot, left, mid)
               ELSE BinarySearch(a, pivot, mid + 1, right)
    ELSE left

\* a[1..start] is sorted; insert a[start+1], ...
RECURSIVE BinaryInsertionSort(_, _)
BinaryInsertionSort(a, start) ==
  IF start >= Len(a) THEN a
  ELSE LET prefix == SubSeq(a, 1, start)
           left == BinarySearch(prefix, a[start + 1], 0, start)
       IN  BinaryInsertionSort(
             InsertAt(prefix, left, a[start + 1]) \o SubSeq(a, start + 2, Len(a)),
             start + 1)

TimSort(a) ==
  IF Len(a) < 2 THEN a
  ELSE LET descending == Comparefn(a[2], a[1]) < 0
           n == RunEnd(a, 3, descending)
           run == IF descending
                    THEN Reverse(SubSeq(a, 1, n)) \o SubSeq(a, n + 1, Len(a))
                    ELSE a
       IN  BinaryInsertionSort(run, n)

\* d.sort( comparefn ) on the given engine
ArraySort(d, eng) == IF eng = "TimSort" THEN TimSort(d) ELSE InsertionSort(d, 2)

\* distances.forEach( d.sort(...) )
SortDistances(dists, eng) == [i \in 1..Len(dists) |-> ArraySort(dists[i], eng)]

\* ------------------------------------------------------------ scheme
\* the memo ord[side] of one street over the observations whose parity and
\* housenumber are truthy, with the script's names: "even" counts those whose
\* housenumber % 2 is truthy
Ord(d, side) ==
  LET counted == {k \in 1..Len(d) : d[k].parity # "" /\ d[k].housenumber # 0
                                      /\ d[k].parity = side}
      isEven(k) == d[k].housenumber % 2
  IN  [odd |-> Cardinality({k \in counted : isEven(k) = 0}),
       even |-> Cardinality({k \in counted : isEven(k) # 0}),
       total |-> Cardinality(counted)]

\* Scheme with || for && inside the two zigzag tests
SchemeEitherSide(d) ==
  LET R == Ord(d, "R")
      L == Ord(d, "L")
      zz1 == R.odd = R.total \/ L.even = L.total
      zz2 == L.odd = L.total \/ R.even = R.total
  IN  IF zz1 \/ zz2 THEN "zigzag" ELSE "updown"

\* Scheme with the second zigzag test left out
SchemeOneWay(d) ==
  LET R == Ord(d, "R")
      L == Ord(d, "L")
      zz1 == R.odd = R.total /\ L.even = L.total
  IN  IF zz1 THEN "zigzag" ELSE "updown"

\* Scheme asking for at least one counted observation before it answers zigzag
SchemeNeedsObservations(d) ==
  LET R == Ord(d, "R")
      L == Ord(d, "L")
      zz1 == R.odd = R.total /\ L.even = L.total
      zz2 == L.odd = L.total /\ R.even = R.total
  IN  IF (zz1 \/ zz2) /\ R.total + L.total > 0 THEN "zigzag" ELSE "updown"

\* the scheme of one street from its observations
Scheme(d) ==
  LET R == Ord(d, "R")
      L == Ord(d, "L")
      zz1 == R.odd = R.total /\ L.even = L.total
      zz2 == L.odd = L.total /\ R.even = R.total
  IN  IF zz1 \/ zz2 THEN "zigzag" ELSE "updown"

\* ------------------------------------------------------------ interpolation
\* no interpolation (null)
NoNumber == [num |-> 0, den |-> 0]

SetMax(S) == CHOOSE x \in S : \A y \in S : y <= x
SetMin(S) == CHOOSE x \in S : \A y \in S : x <= y

\* interpolate( track, q ): the fractional housenumber at distance q of a track
\* sorted by distance, or nothing outside the observed range
Interpolate(track, q) ==
  LET los == {k \in 1..Len(track) : track[k].dist <= q}
      his == {k \in 1..Len(track) : track[k].dist >= q}
  IN  IF Len(track) < 2 \/ los = {} \/ his = {} THEN NoNumber
      ELSE LET lo == track[SetMax(los)]
               hi == track[SetMin(his)]
           IN  IF lo.dist = hi.dist
                 THEN [num |-> lo.housenumber, den |-> 1]
                 ELSE [num |-> lo.housenumber * (hi.dist - lo.dist)
                                 + (hi.housenumber - lo.housenumber) * (q - lo.dist),
                       den |-> hi.dist - lo.dist]

\* Array.prototype.filter
RECURSIVE Filter(_, _)
Filter(d, side) ==
  IF d = <<>> THEN <<>>
  ELSE (IF Head(d).parity = side THEN <<Head(d)>> ELSE <<>>) \o Filter(Tail(d), side)

\* ------------------------------------------------------------ state
VARIABLES
  pc,           \* where the transform function is: idle, batch, classify, vertices
  lookup,       \* the tuple in hand: [streets: <<[id, line]>>, batch: <<[NUMBER, LON, LAT]>>]
  coordinates,  \* street.coordinates, per street
  scheme,       \* street.scheme, per street
  distances,    \* per street, the observations [housenumber, dist, parity]
  cursor,       \* the index of the running forEach
  out,          \* the rows pushed downstream for the tuple in hand
  events,       \* what produced each row, in push order, and the call of next()
  log,          \* the console.error calls made for the tuple in hand
  engine,       \* the sort algorithm of the engine the stream runs on
  remaining     \* how many tuples upstream will still write

vars == <<pc, lookup, coordinates, scheme, distances, cursor, out, events, log,
          engine, remaining>>

\* An observation also records the batch position of its record (rec), and an
\* event the record / street / vertex / track / distance that produced the row:
\* bookkeeping that no step of the script reads.

\* ------------------------------------------------------------ one record
IsValidProjection(proj) ==
  proj.edge # <<>> /\ proj.point # <<>> /\ proj.dist # Infinity

\* no street picked yet
NoNearest == [projection |-> [dist |-> Infinity], index |-> 0]

\* Nearest with <= for <: the last of equally near streets is kept
RECURSIVE NearestLastWins(_, _, _, _)
NearestLastWins(coords, i, point, nearest) ==
  IF i > Len(coords) THEN nearest
  ELSE LET proj == PointOnLine(coords[i], point)
       IN  NearestLastWins(coords, i + 1, point,
             IF IsValidProjection(proj) /\ proj.dist <= nearest.projection.dist
               THEN [projection |-> proj, index |-> i]
               ELSE nearest)

\* the streets loop of one record: the nearest valid projection, the first of
\* equally near streets being kept
RECURSIVE Nearest(_, _, _, _)
Nearest(coords, i, point, nearest) ==
  IF i > Len(coords) THEN nearest
  ELSE LET proj == PointOnLine(coords[i], point)
       IN  Nearest(coords, i + 1, point,
             IF IsValidProjection(proj) /\ proj.dist < nearest.projection.dist
               THEN [projection |-> proj, index |-> i]
               ELSE nearest)

Diagnostic(k, msg) == [rec |-> k, msg |-> msg]

\* the three console.error calls of each street the point does not project on
RECURSIVE ProjectionErrors(_, _, _, _)
ProjectionErrors(coords, i, point, k) ==
  IF i > Len(coords) THEN <<>>
  ELSE (IF IsValidProjection(PointOnLine(coords[i], point)) THEN <<>>
        ELSE <<Diagnostic(k, "unable to project point on to linestring"),
               Diagnostic(k, "street"), Diagnostic(k, "point")>>)
       \o ProjectionErrors(coords, i + 1, point, k)

OARow(id, housenumber, point, parity, proj) ==
  [id |-> id, source |-> "OA", housenumber |-> housenumber,
   lon |-> ToFixed7(point[1]), lat |-> ToFixed7(point[2]), parity |-> parity,
   proj_lon |-> ToFixed7(proj.point[1]), proj_lat |-> ToFixed7(proj.point[2])]

Event(kind, k, si, vi, track, q) ==
  [kind |-> kind, rec |-> k, si |-> si, vi |-> vi, track |-> track, q |-> q]

\* the body of lookup.batch.forEach for the k-th record, on the handler's
\* state h = [distances, out, events, log]
ItemStep(h, streets, coords, item, k) ==
  LET housenumber == Housenumber(item.NUMBER)
      point == <<item.LON, item.LAT>>
      nearest == Nearest(coords, 1, point, NoNearest)
      errors == ProjectionErrors(coords, 1, point, k)
  IN  IF IsNaN(housenumber)
        THEN [h EXCEPT !.log =
                Append(@, Diagnostic(k, "could not reliably parse housenumber"))]
      ELSE IF nearest.index = 0 \/ nearest.projection.dist = Infinity
        THEN [h EXCEPT !.log = @ \o errors \o
                <<Diagnostic(k, "unable to find nearest street for point"),
                  Diagnostic(k, "streets"), Diagnostic(k, "item")>>]
      ELSE LET parity == Parity(nearest.projection, point)
               dist == LineDistance(
                         SliceLineAtProjection(coords[nearest.index], nearest.projection))
           IN  [distances |-> [h.distances EXCEPT ![nearest.index] =
                                 Append(@, [housenumber |-> housenumber, dist |-> dist,
                                            parity |-> parity, rec |-> k])],
                out |-> Append(h.out, OARow(streets[nearest.index].id, housenumber,
                                            point, parity, nearest.projection)),
                events |-> Append(h.events,
                                  Event("OA", k, nearest.index, 0, parity, dist)),
                log |-> h.log \o errors]

\* ------------------------------------------------------------ vertices
VertexRow(id, num, vertex) ==
  [id |-> id, source |-> "VERTEX", housenumber |-> ToFixed3(num),
   lon |-> Undefined, lat |-> Undefined, parity |-> Undefined,
   proj_lon |-> ToFixed7(vertex[1]), proj_lat |-> ToFixed7(vertex[2])]

\* Tracks with the right side interpolated before the left side
TracksRightFirst(d, sch) ==
  IF sch = "zigzag"
    THEN << [name |-> "all", obs |-> d] >>
    ELSE << [name |-> "R", obs |-> Filter(d, "R")],
            [name |-> "L", obs |-> Filter(d, "L")] >>

\* Tracks with the side filters left out
TracksUnfiltered(d, sch) ==
  IF sch = "zigzag"
    THEN << [name |-> "all", obs |-> d] >>
    ELSE << [name |-> "L", obs |-> d], [name |-> "R", obs |-> d] >>

\* the tracks interpolated at each vertex of a street, in the order of the calls
Tracks(d, sch) ==
  IF sch = "zigzag"
    THEN << [name |-> "all", obs |-> d] >>
    ELSE << [name |-> "L", obs |-> Filter(d, "L")],
            [name |-> "R", obs |-> Filter(d, "R")] >>

\* !num
Falsy(num) == num.den = 0 \/ num.num = 0

\* housenumbers.forEach at one vertex: a row per interpolation that is not null
RECURSIVE RowsAtVertex(_, _, _, _, _, _)
RowsAtVertex(id, vertex, i, q, tracks, si) ==
  IF tracks = <<>> THEN <<>>
  ELSE LET num == Interpolate(Head(tracks).obs, q)
       IN  (IF Falsy(num) THEN <<>>
            ELSE << [row |-> VertexRow(id, num, vertex),
                     event |-> Event("VERTEX", 0, si, i, Head(tracks).name, q)] >>)
           \o RowsAtVertex(id, vertex, i, q, Tail(tracks), si)

\* VertexWalk with = for +=: the distance restarts at every edge
RECURSIVE VertexWalkPerEdge(_, _, _, _, _, _, _)
VertexWalkPerEdge(id, coords, i, vertexDistance, d, sch, si) ==
  IF i + 1 > Len(coords) THEN <<>>
  ELSE LET edge == SubSeq(coords, i, i + 1)
           q == LineDistance(edge)
       IN  RowsAtVertex(id, coords[i + 1], i, q, Tracks(d, sch), si)
           \o VertexWalkPerEdge(id, coords, i + 1, q, d, sch, si)

\* street.coordinates.forEach from the script's vertex index i >= 1 on (the
\* vertex coords[i + 1]), vertexDistance being the distance travelled so far
RECURSIVE VertexWalk(_, _, _, _, _, _, _)
VertexWalk(id, coords, i, vertexDistance, d, sch, si) ==
  IF i + 1 > Len(coords) THEN <<>>
  ELSE LET edge == SubSeq(coords, i, i + 1)
           q == vertexDistance + LineDistance(edge)
       IN  RowsAtVertex(id, coords[i + 1], i, q, Tracks(d, sch), si)
           \o VertexWalk(id, coords, i + 1, q, d, sch, si)

Column(rows, field) == [k \in 1..Len(rows) |-> rows[k][field]]

\* the body of lookup.streets.forEach (the vertex loop) for street si
StreetStep(h, streets, coords, sch, si) ==
  LET rows == VertexWalk(streets[si].id, coords[si], 1, 0, h.distances[si], sch[si], si)
  IN  [h EXCEPT !.out = @ \o Column(rows, "row"),
                !.events = @ \o Column(rows, "event")]

\* ------------------------------------------------------------ inputs
\* candidate streets: a three-vertex street whose encoding repeats a vertex, a
\* street with a bend, and a street that collapses to a single vertex
\* polyline.encode of a line given by its first (lat, lon) and the deltas to
\* each next vertex, in whole degrees
Encoded(deltas) ==
  [k \in 1..Len(deltas) |->
     <<deltas[k][1] * Pow10(PRECISION), deltas[k][2] * Pow10(PRECISION)>>]

StreetA == [id |-> "A", line |-> Encoded(<< <<0, 0>>, <<0, 2>>, <<0, 0>>, <<0, 2>> >>)]
StreetB == [id |-> "B", line |-> Encoded(<< <<2, 0>>, <<0, 2>>, <<2, 0>> >>)]
StreetC == [id |-> "C", line |-> Encoded(<< <<1, 1>>, <<0, 0>> >>)]
Corpus == {StreetA, StreetB, StreetC}

\* address points (lon, lat): left of A and as near to B, right of A, nearer to B
Points == {<<1, 1>>, <<3, -1>>, <<3, 2>>}

\* raw housenumbers, as their characters; the last one does not parse
RawNumbers == {<<"1">>, <<"2">>, <<"1", "2", "B">>}

Record(number, point) == [NUMBER |-> number, LON |-> point[1], LAT |-> point[2]]

Records == {Record(n, p) : n \in RawNumbers, p \in Points}

SeqsUpTo(S, n) == UNION {[1..k -> S] : k \in 0..n}

\* the street (0,0)-(10,0) of the end-to-end scenarios
StreetS1 == [id |-> "S1", line |-> Encoded(<< <<0, 0>>, <<0, 10>> >>)]

\* pure zig-zag: odd numbers on one side, even numbers on the other
ZigzagScenario ==
  [streets |-> <<StreetS1>>,
   batch |-> << Record(<<"1">>, <<1, 1>>), Record(<<"3">>, <<3, 1>>),
                Record(<<"2">>, <<2, -1>>), Record(<<"4">>, <<4, -1>>) >>]

ZigzagScenarioMirrored ==
  [streets |-> <<StreetS1>>,
   batch |-> << Record(<<"1">>, <<1, -1>>), Record(<<"2">>, <<2, 1>>),
                Record(<<"3">>, <<3, -1>>), Record(<<"4">>, <<4, 1>>) >>]

\* up-down with two sides, every vertex beyond the observed range
UpdownScenario ==
  [streets |-> <<StreetS1>>,
   batch |-> << Record(<<"1">>, <<1, 1>>), Record(<<"2">>, <<3, 1>>),
                Record(<<"9">>, <<1, -1>>), Record(<<"8">>, <<3, -1>>) >>]

\* up-down with two sides around the middle vertex of street A
TwoSidedScenario ==
  [streets |-> <<StreetA>>,
   batch |-> << Record(<<"1">>, <<1, 1>>), Record(<<"2">>, <<3, 1>>),
                Record(<<"4">>, <<1, -1>>), Record(<<"3">>, <<3, -1>>) >>]

\* two streets observed up to their last vertex: A on its right side, B (past
\* its bend) on both sides
BothStreetsScenario ==
  [streets |-> <<StreetA, StreetB>>,
   batch |-> << Record(<<"1">>, <<1, -1>>), Record(<<"3">>, <<5, -1>>),
                Record(<<"2">>, <<1, 3>>), Record(<<"5">>, <<3, 4>>) >>]

Scenarios ==
  {ZigzagScenario, ZigzagScenarioMirrored, UpdownScenario, TwoSidedScenario,
   BothStreetsScenario}

\* non-empty lists of up to n distinct candidate streets
StreetLists(n) ==
  {s \in SeqsUpTo(Corpus, n) \ {<<>>} :
     \A a \in DOMAIN s, b \in DOMAIN s : a # b => s[a] # s[b]}

\* the lookup tuples a single-tuple run draws from
Tuples ==
  {[streets |-> s, batch |-> b] :
     s \in StreetLists(MaxStreets), b \in SeqsUpTo(Records, MaxBatch)}
  \cup Scenarios

\* the lookup tuples a multi-tuple run draws from
SeqRecords == {Record(n, p) : n \in RawNumbers, p \in {<<1, 1>>, <<3, -1>>}}

SeqTuples ==
  {[streets |-> s, batch |-> b] :
     s \in {<<StreetA>>, <<StreetB, StreetA>>}, b \in SeqsUpTo(SeqRecords, MaxBatch)}

\* ------------------------------------------------------------ actions
\* distances declared outside the transform function and never emptied
StaleDistances(streets) ==
  [i \in 1..Len(streets) |-> IF i <= Len(distances) THEN distances[i] ELSE <<>>]

\* var distances = []; distances[i] = [] for each street of the tuple
FreshDistances(streets) == [i \in 1..Len(streets) |-> <<>>]

\* street.coordinates of each street
Decode(streets) ==
  [i \in 1..Len(streets) |-> Dedupe(ToGeoJSON(streets[i].line, PRECISION))]

Handler == [distances |-> distances, out |-> out, events |-> events, log |-> log]

\* the transform function is called with the next tuple: polylines decoded
Receive(tuples) ==
  /\ pc = "idle"
  /\ remaining > 0
  /\ \E l \in tuples :
       /\ lookup' = l
       /\ coordinates' = Decode(l.streets)
       /\ distances' = FreshDistances(l.streets)
       /\ scheme' = [i \in 1..Len(l.streets) |-> Undefined]
  /\ out' = <<>>
  /\ events' = <<>>
  /\ log' = <<>>
  /\ cursor' = 1
  /\ pc' = "batch"
  /\ remaining' = remaining - 1
  /\ UNCHANGED engine

\* one iteration of lookup.batch.forEach
BatchItem ==
  /\ pc = "batch"
  /\ cursor <= Len(lookup.batch)
  /\ LET h == ItemStep(Handler, lookup.streets, coordinates,
                       lookup.batch[cursor], cursor)
     IN  /\ distances' = h.distances
         /\ out' = h.out
         /\ events' = h.events
         /\ log' = h.log
  /\ cursor' = cursor + 1
  /\ UNCHANGED <<pc, lookup, coordinates, scheme, engine, remaining>>

\* the batch is done: every street's observations are sorted
Sort ==
  /\ pc = "batch"
  /\ cursor > Len(lookup.batch)
  /\ distances' = SortDistances(distances, engine)
  /\ pc' = "classify"
  /\ UNCHANGED <<lookup, coordinates, scheme, cursor, out, events, log, engine,
                 remaining>>

\* lookup.streets[i].scheme of every street
Schemes(dists) == [i \in 1..Len(dists) |-> Scheme(dists[i])]

Classify ==
  /\ pc = "classify"
  /\ scheme' = Schemes(distances)
  /\ pc' = "vertices"
  /\ cursor' = 1
  /\ UNCHANGED <<lookup, coordinates, distances, out, events, log, engine, remaining>>

\* one iteration of the vertex loop over lookup.streets
Vertices ==
  /\ pc = "vertices"
  /\ cursor <= Len(lookup.streets)
  /\ LET h == StreetStep(Handler, lookup.streets, coordinates, scheme, cursor)
     IN  /\ out' = h.out
         /\ events' = h.events
  /\ cursor' = cursor + 1
  /\ UNCHANGED <<pc, lookup, coordinates, scheme, distances, log, engine, remaining>>

\* next(): the tuple is done
EndOfTuple ==
  /\ pc = "vertices"
  /\ cursor > Len(lookup.streets)
  /\ events' = Append(events, Event("next", 0, 0, 0, "", 0))
  /\ pc' = "idle"
  /\ UNCHANGED <<lookup, coordinates, scheme, distances, cursor, out, log, engine,
                 remaining>>

\* ------------------------------------------------------------ specifications
Idle(n) ==
  /\ pc = "idle"
  /\ lookup = [streets |-> <<>>, batch |-> <<>>]
  /\ coordinates = <<>>
  /\ scheme = <<>>
  /\ distances = <<>>
  /\ cursor = 1
  /\ out = <<>>
  /\ events = <<>>
  /\ log = <<>>
  /\ engine \in Engines
  /\ remaining = n

\* one tuple is written to a new stream
Init == Idle(1)

Next ==
  \/ Receive(Tuples)
  \/ BatchItem
  \/ Sort
  \/ Classify
  \/ Vertices
  \/ EndOfTuple

Spec == Init /\ [][Next]_vars

\* several tuples are written to one stream, one after the other
InitSeq == Idle(MaxTuples)

NextSeq ==
  \/ Receive(SeqTuples)
  \/ BatchItem
  \/ Sort
  \/ Classify
  \/ Vertices
  \/ EndOfTuple

SpecSeq == InitSeq /\ [][NextSeq]_vars

\* ------------------------------------------------------------ whole runs
\* lookup.batch.forEach from record k on
RECURSIVE BatchFrom(_, _, _, _, _)
BatchFrom(h, streets, coords, batch, k) ==
  IF k > Len(batch) THEN h
  ELSE BatchFrom(ItemStep(h, streets, coords, batch[k], k), streets, coords, batch,
                 k + 1)

\* the vertex loop from street si on
RECURSIVE StreetsFrom(_, _, _, _, _)
StreetsFrom(h, streets, coords, sch, si) ==
  IF si > Len(streets) THEN h
  ELSE StreetsFrom(StreetStep(h, streets, coords, sch, si), streets, coords, sch,
                   si + 1)

\* the transform function on tuple l alone, from its first line to next()
Run(l, eng) ==
  LET coords == Decode(l.streets)
      h0 == [distances |-> [i \in 1..Len(l.streets) |-> <<>>], out |-> <<>>,
             events |-> <<>>, log |-> <<>>]
      h1 == BatchFrom(h0, l.streets, coords, l.batch, 1)
      sorted == SortDistances(h1.distances, eng)
      sch == Schemes(sorted)
      h2 == StreetsFrom([h1 EXCEPT !.distances = sorted], l.streets, coords, sch, 1)
  IN  [distances |-> sorted, scheme |-> sch, out |-> h2.out,
       events |-> Append(h2.events, Event("next", 0, 0, 0, "", 0)), log |-> h2.log]

\* ------------------------------------------------------------ claims
\* the tuple in hand has been processed to its end
Done == pc = "idle" /\ events # <<>>

\* every street of the tuple in hand has its scheme
Classified == pc = "vertices" \/ Done

Streets == 1..Len(lookup.streets)

\* the observations of street i on one side that have a parity and a housenumber
OnSide(i, side) ==
  {k \in 1..Len(distances[i]) :
     /\ distances[i][k].parity # ""
     /\ distances[i][k].housenumber # 0
     /\ distances[i][k].parity = side}

AllOdd(i, side) == \A k \in OnSide(i, side) : distances[i][k].housenumber % 2 = 1
AllEven(i, side) == \A k \in OnSide(i, side) : distances[i][k].housenumber % 2 = 0

\* C1: a street's scheme is zigzag exactly when every R observation is odd and
\* every L observation even, or every L observation odd and every R observation
\* even; otherwise it is updown.
C1_SchemeClassifier ==
  Classified =>
    \A i \in Streets :
      /\ scheme[i] \in {"zigzag", "updown"}
      /\ scheme[i] = "zigzag" <=>
           \/ AllOdd(i, "R") /\ AllEven(i, "L")
           \/ AllOdd(i, "L") /\ AllEven(i, "R")

\* a classified zigzag street observed on both sides
C1_Witness ==
  /\ Classified
  /\ \E i \in Streets :
       scheme[i] = "zigzag" /\ OnSide(i, "L") # {} /\ OnSide(i, "R") # {}

\* C2 as stated: a street without observations is given the scheme updown.
C2_EmptyStreetUpdown ==
  Classified => \A i \in Streets : distances[i] = <<>> => scheme[i] = "updown"

\* C2 amended: a street without observations is given the scheme zigzag (all
\* four counts are zero, so both zigzag tests hold).
C2_EmptyStreetZigzag ==
  Classified => \A i \in Streets : distances[i] = <<>> => scheme[i] = "zigzag"

\* a classified tuple with a batch none of whose records reached some street
C2_Witness ==
  /\ Classified
  /\ lookup.batch # <<>>
  /\ \E i \in Streets : distances[i] = <<>>

Positions == 1..Len(events)

SideRank(track) == IF track = "R" THEN 1 ELSE 0

\* event a comes before event b in (street, vertex, L before R) order
VertexOrder(a, b) ==
  \/ a.si < b.si
  \/ a.si = b.si /\ a.vi < b.vi
  \/ a.si = b.si /\ a.vi = b.vi /\ SideRank(a.track) < SideRank(b.track)

\* C3: the rows of a tuple are its OA rows in batch order, then its VERTEX rows
\* in (street index, vertex index, L before R) order; no OA row follows a VERTEX
\* row, and next() comes after the last row.
C3_OutputOrder ==
  /\ Len(out) = Cardinality({k \in Positions : events[k].kind # "next"})
  /\ \A k \in 1..Len(out) : out[k].source = events[k].kind
  /\ Done => events[Len(events)].kind = "next"
  /\ \A i \in Positions, j \in Positions :
       i < j =>
         /\ events[i].kind # "next"
         /\ events[i].kind = "VERTEX" => events[j].kind # "OA"
         /\ events[i].kind = "OA" /\ events[j].kind = "OA"
              => events[i].rec < events[j].rec
         /\ events[i].kind = "VERTEX" /\ events[j].kind = "VERTEX"
              => VertexOrder(events[i], events[j])

\* a finished tuple with OA rows, then an L and an R row at one vertex
C3_Witness ==
  /\ Done
  /\ \E i \in Positions, j \in Positions :
       /\ i + 1 = j
       /\ events[i].kind = "VERTEX" /\ events[i].track = "L"
       /\ events[j].kind = "VERTEX" /\ events[j].track = "R"
       /\ events[i].si = events[j].si /\ events[i].vi = events[j].vi
  /\ Cardinality({k \in Positions : events[k].kind = "OA"}) >= 2

\* the track a VERTEX event of street si was interpolated from
TrackOf(e) ==
  IF scheme[e.si] = "zigzag" THEN distances[e.si] ELSE Filter(distances[e.si], e.track)

\* C4: every VERTEX row at distance q has, in its track (all observations of
\* its street under zigzag, one side's under updown), at least two
\* observations, one at a distance <= q and one at a distance >= q.
C4_NoExtrapolation ==
  Classified =>
    \A k \in Positions :
      events[k].kind = "VERTEX" =>
        LET e == events[k]
            track == TrackOf(e)
        IN  /\ e.si \in Streets
            /\ scheme[e.si] = "zigzag" => e.track = "all"
            /\ scheme[e.si] = "updown" => e.track \in {"L", "R"}
            /\ Len(track) >= 2
            /\ \E a \in 1..Len(track), b \in 1..Len(track) :
                 a # b /\ track[a].dist <= e.q /\ e.q <= track[b].dist

\* a VERTEX row of an updown street whose other side has observations too,
\* beside a vertex that got no row
C4_Witness ==
  /\ Done
  /\ \E k \in Positions :
       /\ events[k].kind = "VERTEX"
       /\ scheme[events[k].si] = "updown"
       /\ Len(TrackOf(events[k])) < Len(distances[events[k].si])
       /\ Len(coordinates[events[k].si]) = 3
       /\ \A j \in Positions : events[j].kind = "VERTEX" => events[j].vi = 1

ZigzagScenarios == {ZigzagScenario, ZigzagScenarioMirrored}

Count(kind) == Cardinality({k \in Positions : events[k].kind = kind})

\* C5 as stated: the zig-zag scenario ends with 4 OA rows, the scheme zigzag and
\* one VERTEX row at vertex (10,0), interpolated from all observations.
C5_ZigzagScenarioOneVertexRow ==
  Done /\ lookup \in ZigzagScenarios =>
    /\ Count("OA") = 4
    /\ scheme = <<"zigzag">>
    /\ Count("VERTEX") = 1
    /\ \A k \in Positions :
         events[k].kind = "VERTEX" =>
           /\ events[k].track = "all"
           /\ out[k].proj_lon = ToFixed7(10) /\ out[k].proj_lat = ToFixed7(0)

\* C5 amended: the zig-zag scenario ends with 4 OA rows, the scheme zigzag and
\* no VERTEX row: vertex (10,0) lies at distance 10, beyond the observations
\* (at 1, 2, 3, 4), and nothing is extrapolated.
C5_ZigzagScenarioNoVertexRow ==
  Done /\ lookup \in ZigzagScenarios =>
    /\ Count("OA") = 4
    /\ scheme = <<"zigzag">>
    /\ Count("VERTEX") = 0
    /\ \A k \in 1..Len(distances[1]) : distances[1][k].dist < 10

\* the zig-zag scenario, processed to its end
C5_Witness == Done /\ lookup = ZigzagScenarioMirrored /\ Len(distances[1]) = 4

\* the records of the batch already handled
Processed ==
  IF pc = "batch" THEN 1..(cursor - 1)
  ELSE IF Classified \/ pc = "classify" THEN 1..Len(lookup.batch) ELSE {}

Invalid(k) == Housenumber(lookup.batch[k].NUMBER) = NaN

LogOf(k) == {j \in 1..Len(log) : log[j].rec = k}

OAOf(k) == {j \in Positions : events[j].kind = "OA" /\ events[j].rec = k}

\* where the observations of record k are: <<street, position>>
ObsOf(k) ==
  UNION {{<<i, j>> : j \in {x \in 1..Len(distances[i]) : distances[i][x].rec = k}} :
           i \in Streets}

\* a street the point can be projected on: one that has an edge
Projectable(i) == Len(coordinates[i]) >= 2

\* the batch without the records whose housenumber does not parse
RECURSIVE ValidOnly(_)
ValidOnly(batch) ==
  IF batch = <<>> THEN <<>>
  ELSE (IF Housenumber(Head(batch).NUMBER) = NaN THEN <<>> ELSE <<Head(batch)>>)
       \o ValidOnly(Tail(batch))

SameRows(a, b) ==
  /\ Len(a) = Len(b)
  /\ \A k \in 1..Len(a) : a[k].source = b[k].source /\ a[k] = b[k]

\* observations without the batch position of their record
Bare(dists) ==
  [i \in 1..Len(dists) |->
     [j \in 1..Len(dists[i]) |->
        [housenumber |-> dists[i][j].housenumber, dist |-> dists[i][j].dist,
         parity |-> dists[i][j].parity]]]

\* C6: a record whose housenumber parses to NaN makes exactly one diagnostic,
\* no row and no observation; every valid record that can be matched makes
\* exactly one observation and one OA row, and the tuple's rows, schemes and
\* observations are those of the batch without the invalid records.
C6_InvalidHousenumberSkipped ==
  /\ \A k \in Processed :
       /\ Invalid(k) =>
            /\ Cardinality(LogOf(k)) = 1
            /\ \A j \in LogOf(k) : log[j].msg = "could not reliably parse housenumber"
            /\ OAOf(k) = {}
            /\ ObsOf(k) = {}
       /\ ~Invalid(k) /\ (\E i \in Streets : Projectable(i)) =>
            /\ Cardinality(OAOf(k)) = 1
            /\ Cardinality(ObsOf(k)) = 1
  /\ Done =>
       LET r == Run([lookup EXCEPT !.batch = ValidOnly(@)], engine)
       IN  /\ SameRows(out, r.out)
           /\ scheme = r.scheme
           /\ Bare(distances) = Bare(r.distances)

\* a finished batch whose invalid record is followed by a valid, matched one
C6_Witness ==
  /\ Done
  /\ \E k \in Processed, b \in Processed :
       k < b /\ Invalid(k) /\ LogOf(k) # {} /\ OAOf(b) # {} /\ ObsOf(b) # {}

PointOf(k) == <<lookup.batch[k].LON, lookup.batch[k].LAT>>

\* the squared distance from the point of record k to the nearest edge of street i
ProjectionDistance(i, k) ==
  LET c == coordinates[i]
  IN  SetMin({Dist2(PointOf(k), Foot(c[e], c[e + 1], PointOf(k))) : e \in 1..(Len(c) - 1)})

\* C7: a valid record is observed on, and its OA row carries the id of, the
\* candidate with the smallest projection distance among those it projects on,
\* the lowest index winning ties; a candidate it does not project on is logged
\* and passed over; no other street gets the observation; and when no
\* candidate is left the record is skipped without row or observation.
C7_StreetMatcher ==
  /\ \A j \in Positions :
       events[j].kind = "OA" =>
         LET si == events[j].si
             k == events[j].rec
         IN  /\ si \in Streets /\ Projectable(si)
             /\ \A i \in Streets :
                  Projectable(i) =>
                    /\ ProjectionDistance(si, k) <= ProjectionDistance(i, k)
                    /\ i < si => ProjectionDistance(si, k) < ProjectionDistance(i, k)
             /\ out[j].id = lookup.streets[si].id
             /\ ObsOf(k) # {}
             /\ \A o \in ObsOf(k) : o[1] = si
  /\ \A k \in Processed :
       ~Invalid(k) =>
         /\ Cardinality({j \in LogOf(k) :
                           log[j].msg = "unable to project point on to linestring"})
              = Cardinality({i \in Streets : ~Projectable(i)})
         /\ (\A i \in Streets : ~Projectable(i)) =>
              /\ OAOf(k) = {}
              /\ ObsOf(k) = {}
              /\ \E j \in LogOf(k) :
                   log[j].msg = "unable to find nearest street for point"

\* a record matched to the second candidate, the first one having collapsed to
\* a single vertex
C7_Witness ==
  /\ Done
  /\ \E j \in Positions :
       /\ events[j].kind = "OA"
       /\ events[j].si = 2
       /\ ~Projectable(1)
       /\ LogOf(events[j].rec) # {}

\* the VERTEX events of vertex vi of street si
AtVertex(si, vi) ==
  {j \in Positions : events[j].kind = "VERTEX" /\ events[j].si = si /\ events[j].vi = vi}

\* C8: no VERTEX row is made for vertex 0; the row of vertex i >= 1 is at the
\* sum of the lengths of the edges (0,1) .. (i-1,i); a vertex gets at most one
\* row under zigzag and at most two (one per side) under updown; a VERTEX row
\* carries the vertex coordinate and the street id, and no lon, lat or parity.
C8_VertexWalk ==
  Classified =>
    \A j \in Positions :
      events[j].kind = "VERTEX" =>
        LET e == events[j]
            c == coordinates[e.si]
        IN  /\ e.vi >= 1 /\ e.vi + 1 <= Len(c)
            /\ e.q = LineDistance(SubSeq(c, 1, e.vi + 1))
            /\ out[j].id = lookup.streets[e.si].id
            /\ out[j].proj_lon = ToFixed7(c[e.vi + 1][1])
            /\ out[j].proj_lat = ToFixed7(c[e.vi + 1][2])
            /\ out[j].lon = Undefined /\ out[j].lat = Undefined
            /\ out[j].parity = Undefined
            /\ scheme[e.si] = "zigzag" => Cardinality(AtVertex(e.si, e.vi)) = 1
            /\ scheme[e.si] = "updown" =>
                 /\ Cardinality(AtVertex(e.si, e.vi)) <= 2
                 /\ \A x \in AtVertex(e.si, e.vi) :
                      x # j => events[x].track # e.track

\* a VERTEX row at the last vertex of a street with a bend, after one at the bend
C8_Witness ==
  /\ Done
  /\ \E j \in Positions :
       /\ events[j].kind = "VERTEX"
       /\ events[j].vi = 2
       /\ lookup.streets[events[j].si] = StreetB
       /\ AtVertex(events[j].si, 1) # {}

\* the observations of every street have been sorted
Sorted == pc = "classify" \/ Classified

\* the observations recorded for street i, by the batch position of their record
RecordedOn(i) == {events[j].rec : j \in {x \in Positions :
                                           events[x].kind = "OA" /\ events[x].si = i}}

\* C9 as stated: after the sort a street's observations are in non-decreasing
\* distance order, are a permutation of those recorded for the street, and
\* equal distances keep their batch order.
C9_StableSort ==
  Sorted =>
    \A i \in Streets :
      LET d == distances[i]
      IN  /\ \A a \in 1..Len(d), b \in 1..Len(d) : a < b => d[a].dist <= d[b].dist
          /\ {d[a].rec : a \in 1..Len(d)} = RecordedOn(i)
          /\ Cardinality(RecordedOn(i)) = Len(d)
          /\ \A a \in 1..Len(d), b \in 1..Len(d) :
               a < b /\ d[a].dist = d[b].dist => d[a].rec < d[b].rec

\* C10: whatever tuples the stream handled before, the observations of the
\* tuple in hand come from its own records only, and when it is done its rows,
\* schemes, observations and diagnostics are those of the tuple handled alone
\* by a new stream.
C10_NoStateBetweenTuples ==
  /\ pc # "idle" \/ Done =>
       /\ Len(distances) = Len(lookup.streets)
       /\ \A i \in Streets :
            \A j \in 1..Len(distances[i]) :
              LET o == distances[i][j]
              IN  /\ o.rec \in Processed
                  /\ o.housenumber = Housenumber(lookup.batch[o.rec].NUMBER)
                  /\ Cardinality(ObsOf(o.rec)) = 1
  /\ Done =>
       LET r == Run(lookup, engine)
       IN  /\ SameRows(out, r.out)
           /\ scheme = r.scheme
           /\ distances = r.distances
           /\ events = r.events
           /\ log = r.log

\* a later tuple of the stream, done, with observations and a VERTEX row
C10_Witness ==
  /\ Done
  /\ remaining + 2 <= MaxTuples
  /\ Count("OA") >= 2
  /\ Count("VERTEX") >= 1

=============================================================================
